---- MODULE Spec2Model ----
(***************************************************************************)
(* Change tracking of sentry.db.models.BaseModel: the per-instance copy of *)
(* the column values taken by _update_tracked_data, the dirty checks       *)
(* has_changed / old_value, the pickling hooks __getstate__ / __reduce__ / *)
(* __setstate__ and the post_save receiver __model_post_save, over the two *)
(* concrete models Option and AuthProvider.                                *)
(*                                                                         *)
(* Python values are integers: None is -1, a missing attribute or a        *)
(* missing dict key is -2, True is 1, other values are 0..MaxVal (and the  *)
(* defaults the models declare).                                           *)
(***************************************************************************)
EXTENDS Integers, Sequences, FiniteSets, TLC

\* Values that callers pass for ids, keys and plain fields are 0..MaxVal.
MaxVal == 1

None == -1
NoAttr == -2
Val == 0..MaxVal
PyVal == Val \cup {None}

\* The names bound to in-memory instances; a is the one that callers use
\* freely, b is bound only where a second instance is loaded.
Inst == {"a", "b"}
Main == {"a"}

\* The concrete models.
Classes == {"Option", "AuthProvider"}

\* The concrete models and a model that derives from Model and declares
\* nothing of its own (class Plain(Model): pass).
Derived == Classes \cup {"Plain"}

----------------------------------------------------------------------------
(* Field metadata (_meta.fields): logical name, column, foreign key or not *)

Field(n, c, fk) == [name |-> n, column |-> c, fk |-> fk]

\* models.DateTimeField(default=timezone.now): the clock's value.
Now == 7

\* Model.id, inherited by every concrete model.
IdField == Field("id", "id", FALSE)

OptionFields ==
    << IdField,
       Field("key", "key", FALSE),
       Field("value", "value", FALSE),
       Field("last_updated", "last_updated", FALSE) >>

AuthProviderFields ==
    << IdField,
       Field("organization", "organization_id", TRUE),
       Field("provider", "provider", FALSE),
       Field("config", "config", FALSE),
       Field("date_added", "date_added", FALSE),
       Field("sync_time", "sync_time", FALSE),
       Field("last_sync", "last_sync", FALSE),
       Field("default_role", "default_role", FALSE),
       Field("default_global_access", "default_global_access", FALSE),
       Field("flags", "flags", FALSE) >>

meta_fields(cls) ==
    CASE cls = "Option" -> OptionFields
      [] cls = "Plain" -> << IdField >>
      [] OTHER -> AuthProviderFields

Range(s) == {s[k] : k \in 1..Len(s)}

FieldSet(cls) == Range(meta_fields(cls))
FieldNames(cls) == {f.name : f \in FieldSet(cls)}
Columns(cls) == {f.column : f \in FieldSet(cls)}

\* The instance attribute that holds a field's value (Django's attname):
\* the column for a foreign key, the name otherwise.
Attname(f) == IF f.fk THEN f.column ELSE f.name

\* The attribute in which the related-object descriptor of a foreign key
\* caches the related object.
CacheName(f) == "_organization_cache"

\* The class attribute __sane__ as getattr(cls, '__sane__', ()) finds it:
\* the tuple a model declares, or the one inherited from Model, which is
\* ('id'), a string.
ClassSane(cls) ==
    CASE cls = "Option" -> [kind |-> "tuple", items |-> <<"key", "value">>]
      [] cls = "AuthProvider" ->
           [kind |-> "tuple", items |-> <<"organization_id", "provider">>]
      [] OTHER -> [kind |-> "str", items |-> <<"i", "d">>]

\* cls.__name__.lower()
Lower(cls) ==
    CASE cls = "Option" -> "option"
      [] cls = "AuthProvider" -> "authprovider"
      [] cls = "Plain" -> "plain"
      [] OTHER -> "user"

\* The names of the entries of an instance's __dict__ that hold field data.
AttrNames(cls) ==
    {Attname(f) : f \in FieldSet(cls)}
        \cup {CacheName(f) : f \in {g \in FieldSet(cls) : g.fk}}

\* Declared defaults of the fields (None where the model declares none).
Default(cls, a) ==
    CASE cls = "Option" /\ a = "last_updated" -> Now
      [] cls = "AuthProvider" /\ a = "date_added" -> Now
      [] cls = "AuthProvider" /\ a = "default_role" -> 50
      [] cls = "AuthProvider" /\ a = "default_global_access" -> 1
      [] cls = "AuthProvider" /\ a = "flags" -> 0
      [] a = "_organization_cache" -> NoAttr
      [] OTHER -> None

\* Related Organization objects, named by their identity: one per key, and
\* a second one for the key MaxVal.  RelPk is an object's primary key.
RelObjs == 0..(MaxVal + 1)
RelPk(oid) == IF oid > MaxVal THEN MaxVal ELSE oid

----------------------------------------------------------------------------
(* Instances: the class, the field entries of __dict__ (d) and the         *)
(* name-mangled private entries of __dict__ (p).                           *)
(*   objs       the instance bound to each name                            *)
(*   payload    the pickled state on its way from dumps to loads           *)
(*   last       the operation that ran last, and on which name             *)
(*   atCapture  history: the field attributes as the last capture saw them *)
(*   neverSaved history: the instance was constructed without an id and    *)
(*              no save of it has succeeded                                *)
(*   other      an object that is saved but is no BaseModel                *)
(*   deleted    the ids whose rows were deleted from the backing store and *)
(*              not written again                                          *)
(*   affected   what the last update() returned (None before any)          *)
(*   heap       the content of the one mutable value (TheDict)             *)

VARIABLES objs, payload, last, atCapture, neverSaved,
          other, deleted, affected, heap

vars == <<objs, payload, last, atCapture, neverSaved,
          other, deleted, affected, heap>>

EmptyMap == [c \in {} |-> None]

\* UNSAVED = object()
UNSAVED == [tag |-> "UNSAVED", map |-> EmptyMap]
\* A private entry that is not in __dict__.
Absent == [tag |-> "ABSENT", map |-> EmptyMap]
\* A dict of column -> value.
Data(m) == [tag |-> "DATA", map |-> m]

\* Python's private name mangling: __data written inside class cls.
Mangle(cls, attr) == "_" \o cls \o attr

\* self.__data inside BaseModel, and the key that __getstate__ pops.
DataAttr == Mangle("BaseModel", "__data")
PoppedAttr == "_Model__data"
PrivNames == {DataAttr, PoppedAttr}

NoObj == [cls |-> "none", d |-> EmptyMap, p |-> [n \in PrivNames |-> Absent]]

\* cls.__new__(cls): an instance with an empty __dict__.
NewObj(cls) ==
    [cls |-> cls,
     d |-> [a \in AttrNames(cls) |-> NoAttr],
     p |-> [n \in PrivNames |-> Absent]]

\* getattr(self, a, default)
getattr3(o, a, default) ==
    IF a \in DOMAIN o.d /\ o.d[a] # NoAttr THEN o.d[a] ELSE default

\* dict.get(k)
dict_get(m, k) == IF k \in DOMAIN m /\ m[k] # NoAttr THEN m[k] ELSE None

\* Python truth of a value: None and 0 are false.
Truthy(v) == v \notin {None, 0}

\* BaseModel.__get_field_value
get_field_value(o, field) ==
    IF field.fk
    THEN getattr3(o, field.column, None)
    ELSE getattr3(o, field.name, None)

\* The loop of _update_tracked_data over self._meta.fields[k..].
RECURSIVE capture_loop(_, _, _, _)
capture_loop(o, fields, k, data) ==
    IF k > Len(fields) THEN data
    ELSE capture_loop(o, fields, k + 1,
             [c \in DOMAIN data \cup {fields[k].column} |->
                 IF c = fields[k].column
                 THEN get_field_value(o, fields[k])
                 ELSE data[c]])

\* _update_tracked_data without the test of self.id: always takes a copy.
update_tracked_data_always(o) ==
    [o EXCEPT !.p[DataAttr] =
         Data(capture_loop(o, meta_fields(o.cls), 1, EmptyMap))]

\* _update_tracked_data testing "self.id is not None" instead of "self.id".
update_tracked_data_not_none(o) ==
    IF o.d["id"] # None
    THEN [o EXCEPT !.p[DataAttr] =
              Data(capture_loop(o, meta_fields(o.cls), 1, EmptyMap))]
    ELSE [o EXCEPT !.p[DataAttr] = UNSAVED]

\* _update_tracked_data recording, once a Snapshot exists, only the values
\* that differ from the ones the previous Snapshot holds (None otherwise).
update_tracked_data_delta(o) ==
    IF Truthy(o.d["id"])
    THEN LET full == capture_loop(o, meta_fields(o.cls), 1, EmptyMap)
             prev == o.p[DataAttr]
         IN [o EXCEPT !.p[DataAttr] =
                Data([c \in DOMAIN full |->
                         IF prev.tag = "DATA" /\ c \in DOMAIN prev.map
                            /\ prev.map[c] = full[c]
                         THEN None ELSE full[c]])]
    ELSE [o EXCEPT !.p[DataAttr] = UNSAVED]

\* BaseModel._update_tracked_data
update_tracked_data(o) ==
    IF Truthy(o.d["id"])
    THEN [o EXCEPT !.p[DataAttr] =
              Data(capture_loop(o, meta_fields(o.cls), 1, EmptyMap))]
    ELSE [o EXCEPT !.p[DataAttr] = UNSAVED]

\* self._meta.get_field(field_name): lookup by logical name.
HasField(cls, field_name) == field_name \in FieldNames(cls)
get_field(cls, field_name) ==
    CHOOSE f \in FieldSet(cls) : f.name = field_name

Raise(e) == [exc |-> e, val |-> None]
ReturnBool(b) == [exc |-> "none", val |-> IF b THEN 1 ELSE 0]
Return(v) == [exc |-> "none", val |-> v]

\* has_changed looking the field up before it tests for UNSAVED.
has_changed_lookup_first(o, field_name) ==
    LET data == o.p[DataAttr] IN
    IF data.tag = "ABSENT" THEN Raise("AttributeError")
    ELSE IF ~HasField(o.cls, field_name) THEN Raise("FieldDoesNotExist")
    ELSE IF data = UNSAVED THEN ReturnBool(FALSE)
    ELSE ReturnBool(dict_get(data.map, field_name)
                      # get_field_value(o, get_field(o.cls, field_name)))

\* BaseModel.has_changed
has_changed(o, field_name) ==
    LET data == o.p[DataAttr] IN
    IF data.tag = "ABSENT" THEN Raise("AttributeError")
    ELSE IF data = UNSAVED THEN ReturnBool(FALSE)
    ELSE IF ~HasField(o.cls, field_name) THEN Raise("FieldDoesNotExist")
    ELSE ReturnBool(dict_get(data.map, field_name)
                      # get_field_value(o, get_field(o.cls, field_name)))

\* BaseModel.old_value
old_value(o, field_name) ==
    LET data == o.p[DataAttr] IN
    IF data.tag = "ABSENT" THEN Raise("AttributeError")
    ELSE IF data = UNSAVED THEN Return(None)
    ELSE Return(dict_get(data.map, field_name))

\* BaseModel.__getstate__
getstate(o) == [o EXCEPT !.p[PoppedAttr] = Absent]

\* BaseModel.__reduce__: the class travels in the constructor arguments,
\* the state is __getstate__().
reduce(o) == getstate(o)

\* self.__dict__.update(state)
dict_update(o, state) ==
    [o EXCEPT
       !.d = [a \in DOMAIN o.d |->
                 IF a \in DOMAIN state.d /\ state.d[a] # NoAttr
                 THEN state.d[a] ELSE o.d[a]],
       !.p = [n \in PrivNames |->
                 IF state.p[n].tag # "ABSENT" THEN state.p[n] ELSE o.p[n]]]

\* "if self.id" of _update_tracked_data raises AttributeError when the
\* instance has no id attribute (the read is outside the try).
capture_raises(o) == o.d["id"] = NoAttr

\* BaseModel.__setstate__
setstate(o, state) == update_tracked_data(dict_update(o, state))

\* __model_post_save without the isinstance test.
model_post_save_any(o) == update_tracked_data(o)

\* __model_post_save(instance): instance is any object a post_save signal
\* carries; only BaseModel instances are captured.
IsBaseModel(o) == o.cls \in Derived
model_post_save(o) ==
    IF ~IsBaseModel(o) THEN o ELSE update_tracked_data(o)

----------------------------------------------------------------------------
(* The debug builders                                                      *)

\* str(v) and repr(v) of None and of a number.
Str(v) == IF v = None THEN "None" ELSE ToString(v)

\* getattr(self, a, None), pk being the property that reads id.
getattr_or_none(o, a) ==
    IF a = "pk" THEN getattr3(o, "id", None) ELSE getattr3(o, a, None)

\* if 'id' not in attrs and 'pk' not in attrs: attrs = ('id',) + attrs
with_id(attrs) ==
    IF "id" \notin Range(attrs) /\ "pk" \notin Range(attrs)
    THEN <<"id">> \o attrs
    ELSE attrs

\* attrs + getattr(cls, '__sane__', ()): a tuple plus a tuple, or a
\* TypeError for a tuple plus a string.
sane_attrs(attrs, cls) ==
    IF ClassSane(cls).kind = "tuple"
    THEN [exc |-> "none", val |-> with_id(attrs) \o ClassSane(cls).items]
    ELSE [exc |-> "TypeError", val |-> <<>>]

\* sane_dict(*attrs) applied to o: the dict as a set of <<key, value>>.
sane_dict(attrs, o) ==
    LET sa == sane_attrs(attrs, o.cls) IN
    [exc |-> sa.exc,
     val |-> {<<Lower(o.cls) \o "." \o sa.val[k],
                Str(getattr_or_none(o, sa.val[k]))>> : k \in 1..Len(sa.val)}]

\* sane_repr(*attrs) applied to o: the class name and the name=value pairs
\* (the address id(self) of the text is left out).
sane_repr(attrs, o) ==
    LET sa == sane_attrs(attrs, o.cls) IN
    [exc |-> sa.exc,
     val |-> <<o.cls>> \o
             [k \in 1..Len(sa.val) |->
                 sa.val[k] \o "=" \o Str(getattr_or_none(o, sa.val[k]))]]

\* Model.__sdict__ = sane_dict('id')
Model_sdict(o) == sane_dict(<<"id">>, o)

----------------------------------------------------------------------------
(* Operations                                                              *)

\* The attributes callers assign in the model.
Assignable(cls) ==
    CASE cls = "Option" -> {"id", "key", "value"}
      [] cls = "Plain" -> {"id"}
      [] OTHER -> {"id", "organization_id", "provider"}

\* Model.__init__(**kwargs): every field attribute gets the keyword's
\* value or the field's default.
init_fields(cls, kw) ==
    [NewObj(cls) EXCEPT
       !.d = [a \in AttrNames(cls) |->
                 IF a \in DOMAIN kw THEN kw[a] ELSE Default(cls, a)]]

\* __init__ that only runs the inherited constructor, without a capture.
BaseModel_init_no_capture(cls, kw) == init_fields(cls, kw)

\* BaseModel.__init__
BaseModel_init(cls, kw) == update_tracked_data(init_fields(cls, kw))

Live(i) == objs[i].cls # "none"

\* An instance of a model that does not derive from BaseModel (a plain
\* django model, with an id and nothing else the hook could read).
ForeignObj ==
    [cls |-> "User", d |-> [a \in {"id"} |-> 1],
     p |-> [n \in PrivNames |-> Absent]]

\* What a capture of o saw: the value of every field attribute if the
\* capture took a copy, nothing if it set UNSAVED.
Seen(o) ==
    IF o.p[DataAttr].tag = "DATA"
    THEN [a \in {Attname(f) : f \in FieldSet(o.cls)} |-> o.d[a]]
    ELSE EmptyMap

\* A pickled state is on its way to pickle.loads.
InFlight == payload.cls # "none"

Op(name, i) == [op |-> name, i |-> i]

Init ==
    /\ objs = [i \in Inst |-> NoObj]
    /\ payload = NoObj
    /\ last = Op("none", "a")
    /\ atCapture = [i \in Inst |-> EmptyMap]
    /\ neverSaved = [i \in Inst |-> FALSE]
    /\ other = ForeignObj
    /\ deleted = {}
    /\ affected = None
    /\ heap = 0

\* obj = cls(**kw)
Construct(i, cls, kw) ==
    /\ ~Live(i)
    /\ ~InFlight
    /\ objs' = [objs EXCEPT ![i] = BaseModel_init(cls, kw)]
    /\ atCapture' = [atCapture EXCEPT ![i] = Seen(objs'[i])]
    /\ neverSaved' = [neverSaved EXCEPT ![i] = (kw["id"] = None)]
    /\ last' = Op("construct", i)
    /\ UNCHANGED payload
    /\ UNCHANGED <<other, deleted, affected, heap>>

\* obj.<a> = v
Assign(i, a, v) ==
    /\ Live(i)
    /\ ~InFlight
    /\ a \in Assignable(objs[i].cls)
    /\ objs' = [objs EXCEPT ![i].d[a] = v]
    /\ last' = Op("assign", i)
    /\ UNCHANGED <<payload, atCapture, neverSaved>>
    /\ UNCHANGED <<other, deleted, affected, heap>>

\* obj.organization = <related object oid>: the foreign key's descriptor
\* stores the object's key in the column attribute and caches the object.
AssignRelated(i, oid) ==
    /\ Live(i)
    /\ ~InFlight
    /\ \E f \in FieldSet(objs[i].cls) :
         /\ f.fk
         /\ objs' = [objs EXCEPT ![i].d[f.column] = RelPk(oid),
                                 ![i].d[CacheName(f)] = oid]
    /\ last' = Op("assign_related", i)
    /\ UNCHANGED <<payload, atCapture, neverSaved>>
    /\ UNCHANGED <<other, deleted, affected, heap>>

\* obj.save() succeeds, with a capture on every instance in memory that
\* represents the row written (as a Snapshot kept per row would have it).
SaveOk_all(i, newid) ==
    /\ Live(i)
    /\ ~InFlight
    /\ LET o == objs[i]
           saved == IF o.d["id"] = None THEN [o EXCEPT !.d["id"] = newid]
                    ELSE o
       IN objs' = [k \in Inst |->
                     IF k = i THEN model_post_save(saved)
                     ELSE IF objs[k].cls = saved.cls
                             /\ objs[k].d["id"] = saved.d["id"]
                          THEN model_post_save(objs[k])
                          ELSE objs[k]]
    /\ atCapture' = [k \in Inst |->
                       IF objs'[k] # objs[k] \/ k = i THEN Seen(objs'[k])
                       ELSE atCapture[k]]
    /\ neverSaved' = [neverSaved EXCEPT ![i] = FALSE]
    /\ last' = Op("save_ok", i)
    /\ UNCHANGED payload
    /\ deleted' = deleted \ {objs'[i].d["id"]}
    /\ UNCHANGED <<other, affected, heap>>

\* obj.save() succeeds: a record without a primary key gets one from the
\* store, the row is written, post_save is sent with the instance.
SaveOk(i, newid) ==
    /\ Live(i)
    /\ ~InFlight
    /\ LET o == objs[i]
           saved == IF o.d["id"] = None THEN [o EXCEPT !.d["id"] = newid]
                    ELSE o
       IN objs' = [objs EXCEPT ![i] = model_post_save(saved)]
    /\ atCapture' = [atCapture EXCEPT ![i] = Seen(objs'[i])]
    /\ neverSaved' = [neverSaved EXCEPT ![i] = FALSE]
    /\ last' = Op("save_ok", i)
    /\ UNCHANGED payload
    /\ deleted' = deleted \ {objs'[i].d["id"]}
    /\ UNCHANGED <<other, affected, heap>>

\* obj.save() raises, with the receiver run all the same (as it would be
\* were it connected to a signal sent before the write).
SaveFail_notifies(i) ==
    /\ Live(i)
    /\ ~InFlight
    /\ objs' = [objs EXCEPT ![i] = model_post_save(objs[i])]
    /\ last' = Op("save_fail", i)
    /\ UNCHANGED <<payload, atCapture, neverSaved>>
    /\ UNCHANGED <<other, deleted, affected, heap>>

\* obj.save() raises: nothing is written and post_save is not sent.
SaveFail(i) ==
    /\ Live(i)
    /\ ~InFlight
    /\ last' = Op("save_fail", i)
    /\ UNCHANGED <<objs, payload, atCapture, neverSaved>>
    /\ UNCHANGED <<other, deleted, affected, heap>>

\* pickle.dumps(obj): the state of __reduce__.
Export(i) ==
    /\ Live(i)
    /\ ~InFlight
    /\ payload' = reduce(objs[i])
    /\ last' = Op("export", i)
    /\ UNCHANGED <<objs, atCapture, neverSaved>>
    /\ UNCHANGED <<other, deleted, affected, heap>>

\* obj = pickle.loads(pickle.dumps(...)): model_unpickle makes the instance,
\* then __setstate__(state); the name j is bound to the new instance.
Import(j) ==
    /\ InFlight
    /\ ~capture_raises(dict_update(NewObj(payload.cls), payload))
    /\ objs' = [objs EXCEPT ![j] = setstate(NewObj(payload.cls), payload)]
    /\ atCapture' = [atCapture EXCEPT ![j] = Seen(objs'[j])]
    /\ neverSaved' = [neverSaved EXCEPT ![j] = FALSE]
    /\ last' = Op("import", j)
    /\ payload' = NoObj
    /\ UNCHANGED <<other, deleted, affected, heap>>

\* other.save() succeeds on an object that is no BaseModel: post_save is
\* sent with it and reaches the same receiver.
SaveOther ==
    /\ ~InFlight
    /\ other' = model_post_save(other)
    /\ last' = Op("save_other", "a")
    /\ UNCHANGED <<objs, payload, atCapture, neverSaved>>
    /\ UNCHANGED <<deleted, affected, heap>>

Next ==
    \/ \E i \in Main, cls \in Classes :
         \E kw \in [Assignable(cls) -> PyVal] : Construct(i, cls, kw)
    \/ \E i \in Main, a \in {"id", "key", "value", "organization_id", "provider"},
          v \in PyVal : Assign(i, a, v)
    \/ \E i \in Main, oid \in RelObjs : AssignRelated(i, oid)
    \/ \E i \in Main, newid \in 1..MaxVal : SaveOk(i, newid)
    \/ \E i \in Main : SaveFail(i)
    \/ \E i \in Main : Export(i)
    \/ \E j \in Main : Import(j)
    \/ SaveOther

Spec == Init /\ [][Next]_vars

----------------------------------------------------------------------------
(* Properties                                                              *)

\* The operations that end with a capture.
CaptureOps == {"construct", "save_ok", "import"}

\* The instance holds a copy of its columns (its Snapshot is not UNSAVED).
Captured(o) == o.p[DataAttr].tag = "DATA"

\* Names that are not fields of the class: column names that are not also
\* logical names, and a name that is nothing at all.
UnknownNames(cls) == (Columns(cls) \ FieldNames(cls)) \cup {"nonexistent"}
QueryNames(cls) == FieldNames(cls) \cup UnknownNames(cls)

\* The current value of field f of o, and its value at the last capture.
CurrentValue(i, f) == objs[i].d[Attname(f)]
CapturedValue(i, f) == atCapture[i][Attname(f)]

True == ReturnBool(TRUE)
False == ReturnBool(FALSE)

\* C1: on a record whose Snapshot is captured, every declared field whose
\* value differs from its value at the last capture reports
\* has_changed = True and old_value = the value at the last capture.
C1_ChangedAfterAssign ==
    \A i \in Inst :
      Live(i) /\ Captured(objs[i]) =>
        \A f \in FieldSet(objs[i].cls) :
          CurrentValue(i, f) # CapturedValue(i, f) =>
            /\ has_changed(objs[i], f.name) = True
            /\ old_value(objs[i], f.name) = Return(CapturedValue(i, f))

\* C2: right after a capture of a record that has an identifier,
\* has_changed is False for every declared field.
C2_CaptureRoundTrip ==
    \A i \in Inst :
      Live(i) /\ last = Op(last.op, i) /\ last.op \in CaptureOps
              /\ objs[i].d["id"] # None =>
        \A f \in FieldSet(objs[i].cls) :
          has_changed(objs[i], f.name) = False

\* C3: right after a successful save (here: of a record whose identifier
\* is not 0), has_changed is False for every declared field and old_value
\* is the value just written.
C3_SaveAdvancesBaseline ==
    \A i \in Inst :
      Live(i) /\ last = Op("save_ok", i) /\ objs[i].d["id"] # 0 =>
        \A f \in FieldSet(objs[i].cls) :
          /\ has_changed(objs[i], f.name) = False
          /\ old_value(objs[i], f.name) = Return(CurrentValue(i, f))

\* C4: a record constructed without an identifier reports, until a save of
\* it succeeds and whatever is assigned to it, has_changed = False and
\* old_value = None for every declared field.
C4_NewRecordUnchanged ==
    \A i \in Inst :
      Live(i) /\ neverSaved[i] =>
        \A f \in FieldSet(objs[i].cls) :
          /\ has_changed(objs[i], f.name) = False
          /\ old_value(objs[i], f.name) = Return(None)

\* C4 witness: a never-saved record whose identifier and another field were
\* assigned in memory.
C4_Witness ==
    \E i \in Inst :
      /\ Live(i) /\ neverSaved[i] /\ last = Op("assign", i)
      /\ objs[i].d["id"] = 1
      /\ \E f \in FieldSet(objs[i].cls) :
           f.name # "id" /\ CurrentValue(i, f) \in Val

\* C5: the exported state has no entry that holds the Snapshot.
C5_ExportDropsSnapshot ==
    InFlight => payload.p[DataAttr].tag = "ABSENT"

\* C6: the object that export followed by import yields reports
\* has_changed = False for every declared field.
C6_PickleRoundTrip ==
    \A i \in Inst :
      Live(i) /\ last = Op("import", i) =>
        \A f \in FieldSet(objs[i].cls) :
          has_changed(objs[i], f.name) = False

\* C7: after the related object of a foreign key of a captured record is
\* replaced, has_changed of the field is True exactly when the new object's
\* key differs from the key at the last capture.
C7_ForeignKeyByKey ==
    \A i \in Inst :
      Live(i) /\ Captured(objs[i]) /\ last = Op("assign_related", i) =>
        \A f \in FieldSet(objs[i].cls) :
          f.fk =>
            has_changed(objs[i], f.name)
              = ReturnBool(RelPk(objs[i].d[CacheName(f)])
                             # CapturedValue(i, f))

\* C8 as stated: in every state the Snapshot is UNSAVED exactly when the
\* identifier is absent.
C8_UnsavedIffNoId ==
    \A i \in Inst :
      Live(i) =>
        ((objs[i].p[DataAttr] = UNSAVED) <=> (objs[i].d["id"] = None))

\* C8 amended: right after a capture (construction, import, the post-save
\* hook of a successful save) the Snapshot is UNSAVED exactly when the
\* identifier is None or 0.
C8_UnsavedIffFalsyIdAtCapture ==
    \A i \in Inst :
      Live(i) /\ last = Op(last.op, i) /\ last.op \in CaptureOps =>
        ((objs[i].p[DataAttr] = UNSAVED) <=> (objs[i].d["id"] \in {None, 0}))

\* C8 witness: a save succeeded on a record whose identifier is 0, and the
\* hook's capture ran.
C8_Witness ==
    \E i \in Inst :
      Live(i) /\ last = Op("save_ok", i) /\ objs[i].d["id"] = 0

\* C9: a failed save changes no result of has_changed or old_value.
C9_FailedSaveKeepsResults ==
    [][\A i \in Inst :
         last' = Op("save_fail", i) =>
           \A n \in QueryNames(objs[i].cls) :
             /\ has_changed(objs'[i], n) = has_changed(objs[i], n)
             /\ old_value(objs'[i], n) = old_value(objs[i], n)]_vars

\* C9 witness: a save failed on a record with a modified field, which
\* still reports has_changed = True.
C9_Witness ==
    \E i \in Inst :
      /\ Live(i) /\ Captured(objs[i]) /\ last = Op("save_fail", i)
      /\ \E f \in FieldSet(objs[i].cls) :
           /\ CurrentValue(i, f) # CapturedValue(i, f)
           /\ has_changed(objs[i], f.name) = True

\* C10 as stated: for a name that is not a field, has_changed and old_value
\* raise the unknown-field error in every Snapshot state.
C10_UnknownFieldRaises ==
    \A i \in Inst :
      Live(i) =>
        \A n \in UnknownNames(objs[i].cls) :
          /\ has_changed(objs[i], n) = Raise("FieldDoesNotExist")
          /\ old_value(objs[i], n) = Raise("FieldDoesNotExist")

\* C10 amended: for a name that is not a field, has_changed raises the
\* unknown-field error when the Snapshot is captured and returns False when
\* it is UNSAVED; old_value never raises: it returns None, or the captured
\* value when the name is a column of the captured Snapshot.
C10_UnknownFieldByState ==
    \A i \in Inst :
      Live(i) =>
        \A n \in UnknownNames(objs[i].cls) :
          /\ has_changed(objs[i], n)
               = IF Captured(objs[i]) THEN Raise("FieldDoesNotExist")
                 ELSE False
          /\ old_value(objs[i], n)
               = IF Captured(objs[i]) /\ n \in Columns(objs[i].cls)
                 THEN Return(atCapture[i][n])
                 ELSE Return(None)

\* C10 witness: a captured record with a foreign key, whose column name is
\* not a field name, and a key that is not None.
C10_Witness ==
    \E i \in Inst :
      /\ Live(i) /\ Captured(objs[i])
      /\ "organization_id" \in UnknownNames(objs[i].cls)
      /\ atCapture[i]["organization_id"] \in Val

----------------------------------------------------------------------------
(* update(): the convenience bulk update of sentry.db.models.query, bound  *)
(* as BaseModel.update.  It writes the given values to the row whose key   *)
(* is the instance's identifier and returns the number of rows written; a  *)
(* write that succeeded is a persistence and notifies the post-save hook.  *)

\* The rows of the backing store whose key is o's identifier.
rows_matching(o) ==
    IF o.d["id"] = None \/ o.d["id"] \in deleted THEN 0 ELSE 1

\* Another process deletes the row with key k.
DeleteRow(k) ==
    /\ ~InFlight
    /\ deleted' = deleted \cup {k}
    /\ last' = Op("delete_row", "a")
    /\ UNCHANGED <<objs, payload, atCapture, neverSaved>>
    /\ UNCHANGED <<other, affected, heap>>

\* update() that notifies the hook whatever the number of rows written.
Update_notifies(i, a, v) ==
    /\ Live(i)
    /\ ~InFlight
    /\ a \in Assignable(objs[i].cls) \ {"id"}
    /\ affected' = rows_matching(objs[i])
    /\ objs' = [objs EXCEPT ![i] = model_post_save(objs[i])]
    /\ atCapture' = [atCapture EXCEPT ![i] = Seen(objs'[i])]
    /\ last' = Op("update", i)
    /\ UNCHANGED <<payload, neverSaved, other, deleted, heap>>

\* obj.update(a=v)
Update(i, a, v) ==
    /\ Live(i)
    /\ ~InFlight
    /\ a \in Assignable(objs[i].cls) \ {"id"}
    /\ affected' = rows_matching(objs[i])
    /\ objs' = IF affected' = 1
               THEN [objs EXCEPT ![i] = model_post_save(objs[i])]
               ELSE objs
    /\ atCapture' = [atCapture EXCEPT ![i] = Seen(objs'[i])]
    /\ last' = Op("update", i)
    /\ UNCHANGED <<payload, neverSaved, other, deleted, heap>>

\* Records of one type with an identifier and one plain field, rows that
\* disappear, and update().
NextStore ==
    \/ \E kw \in [{"id", "value"} -> PyVal] : Construct("a", "Option", kw)
    \/ \E a \in {"id", "value"}, v \in PyVal : Assign("a", a, v)
    \/ \E newid \in 1..MaxVal : SaveOk("a", newid)
    \/ SaveFail("a")
    \/ \E k \in Val : DeleteRow(k)
    \/ \E v \in Val : Update("a", "value", v)

SpecStore == Init /\ [][NextStore]_vars

\* C12: update() on a record whose identifier no longer exists in the
\* backing store returns 0 and leaves the record, its Snapshot included,
\* as it was.
C12_UpdateMissNoRefresh ==
    [][\A i \in Inst :
         last' = Op("update", i) /\ objs[i].d["id"] \in deleted =>
           /\ affected' = 0
           /\ objs'[i] = objs[i]
           /\ \A n \in QueryNames(objs[i].cls) :
                /\ has_changed(objs'[i], n) = has_changed(objs[i], n)
                /\ old_value(objs'[i], n) = old_value(objs[i], n)]_vars

\* C12 witness: update() returned 0 for a record whose row is gone, and a
\* field modified before it still reports has_changed = True.
C12_Witness ==
    \E i \in Inst :
      /\ Live(i) /\ Captured(objs[i]) /\ last = Op("update", i)
      /\ objs[i].d["id"] \in deleted
      /\ affected = 0
      /\ has_changed(objs[i], "value") = True

----------------------------------------------------------------------------
(* Partially initialised records: states pickled by an older version of a  *)
(* class, which lack an attribute; and the debug builders applied to any   *)
(* record of any model.                                                    *)

\* pickle.dumps by a version of the class that had no attribute a.
ExportLegacy(i, a) ==
    /\ Live(i)
    /\ ~InFlight
    /\ a \in Assignable(objs[i].cls)
    /\ payload' = [reduce(objs[i]) EXCEPT !.d[a] = NoAttr]
    /\ last' = Op("export_legacy", i)
    /\ UNCHANGED <<objs, atCapture, neverSaved>>
    /\ UNCHANGED <<other, deleted, affected, heap>>

\* pickle.loads(...) when __setstate__ raises: the capture fails as a
\* whole, no instance is returned and the name j keeps what it had.
ImportFails(j) ==
    /\ InFlight
    /\ capture_raises(dict_update(NewObj(payload.cls), payload))
    /\ payload' = NoObj
    /\ last' = Op("import_failed", j)
    /\ UNCHANGED <<objs, atCapture, neverSaved>>
    /\ UNCHANGED <<other, deleted, affected, heap>>

\* obj.__sdict__() and repr through sane_repr: read only.
Describe(i) ==
    /\ Live(i)
    /\ ~InFlight
    /\ last' = Op("describe", i)
    /\ UNCHANGED <<objs, payload, atCapture, neverSaved>>
    /\ UNCHANGED <<other, deleted, affected, heap>>

NextPartial ==
    \/ \E cls \in Derived :
         \E kw \in [Assignable(cls) -> PyVal] : Construct("a", cls, kw)
    \/ \E a \in {"id", "key", "value", "organization_id", "provider"},
          v \in PyVal : Assign("a", a, v)
    \/ \E newid \in 1..MaxVal : SaveOk("a", newid)
    \/ Export("a")
    \/ \E a \in {"id", "key", "value", "organization_id", "provider"} :
         ExportLegacy("a", a)
    \/ Import("a")
    \/ ImportFails("a")
    \/ Describe("a")

SpecPartial == Init /\ [][NextPartial]_vars

\* The attribute names a model lists for its debug forms.
Listed(cls) ==
    CASE cls = "Option" -> {"key", "value"}
      [] cls = "AuthProvider" -> {"organization_id", "provider"}
      [] OTHER -> {}

\* C13: for every record of every model, sane_repr and sane_dict do not
\* raise, and the keys of sane_dict are "<lowercased model name>.<name>"
\* for the identifier and each listed attribute.
C13_DebugFormsNeverRaise ==
    \A i \in Inst :
      Live(i) =>
        /\ Model_sdict(objs[i]).exc = "none"
        /\ \A attrs \in {<< >>, <<"id">>} :
             /\ sane_repr(attrs, objs[i]).exc = "none"
             /\ sane_dict(attrs, objs[i]).exc = "none"
        /\ {kv[1] : kv \in Model_sdict(objs[i]).val}
             = {Lower(objs[i].cls) \o "." \o a :
                  a \in {"id"} \cup Listed(objs[i].cls)}

\* C16: no import fails in the capture, and after an import the Snapshot
\* of a record that lacks the attribute of a declared field has no entry
\* for that field.
C16_CaptureSkipsUnreadable ==
    /\ last.op # "import_failed"
    /\ \A i \in Inst :
         Live(i) /\ Captured(objs[i]) /\ last = Op("import", i) =>
           \A f \in FieldSet(objs[i].cls) :
             objs[i].d[Attname(f)] = NoAttr =>
               f.column \notin DOMAIN objs[i].p[DataAttr].map

----------------------------------------------------------------------------
(* Mutable field values: Option.value is a pickled object field and may    *)
(* hold a dict.  TheDict is the reference to one such object, heap is what *)
(* the object contains; an attribute and the Snapshot hold the reference.  *)

TheDict == 100

\* The value a stored value denotes when the mutable object contains h.
Deref(v, h) == IF v = TheDict THEN <<"dict", h>> ELSE <<"value", v>>

\* What the Snapshot of o holds, by value.
SnapshotContent(o, h) ==
    [tag |-> o.p[DataAttr].tag,
     map |-> [c \in DOMAIN o.p[DataAttr].map |->
                 Deref(o.p[DataAttr].map[c], h)]]

\* obj.value[k] = x: the current value of the field is modified in place.
MutateInPlace(i, h) ==
    /\ Live(i)
    /\ ~InFlight
    /\ getattr3(objs[i], "value", None) = TheDict
    /\ h # heap
    /\ heap' = h
    /\ last' = Op("mutate", i)
    /\ UNCHANGED <<objs, payload, atCapture, neverSaved>>
    /\ UNCHANGED <<other, deleted, affected>>

\* obj.has_changed(n); obj.old_value(n): read only.
Query(i) ==
    /\ Live(i)
    /\ ~InFlight
    /\ last' = Op("query", i)
    /\ UNCHANGED <<objs, payload, atCapture, neverSaved>>
    /\ UNCHANGED <<other, deleted, affected, heap>>

NextAlias ==
    \/ \E id \in PyVal, v \in PyVal \cup {TheDict} :
         Construct("a", "Option", [a \in {"id", "value"} |->
                                     IF a = "id" THEN id ELSE v])
    \/ \E v \in PyVal : Assign("a", "id", v)
    \/ \E v \in PyVal \cup {TheDict} : Assign("a", "value", v)
    \/ \E h \in Val : MutateInPlace("a", h)
    \/ Query("a")
    \/ \E newid \in 1..MaxVal : SaveOk("a", newid)
    \/ SaveFail("a")
    \/ Export("a")
    \/ Import("a")

SpecAlias == Init /\ [][NextAlias]_vars

\* C14: a step that is no capture (an assignment, an in-place
\* modification, has_changed, old_value, an export, a failed save) leaves
\* the Snapshot and every value it holds as they were, and so every
\* result of old_value.
C14_SnapshotOnlyReplaced ==
    [][\A i \in Inst :
         Live(i) /\ last'.op \notin CaptureOps =>
           /\ objs'[i].p = objs[i].p
           /\ SnapshotContent(objs'[i], heap') = SnapshotContent(objs[i], heap)
           /\ \A n \in QueryNames(objs[i].cls) :
                Deref(old_value(objs'[i], n).val, heap')
                  = Deref(old_value(objs[i], n).val, heap)]_vars

\* C15: on a record whose Snapshot is captured, has_changed(f) is True
\* exactly when the current value of f is not equal to its value at the
\* last capture; assigning the captured value back gives False again.
C15_ChangedIffDiffers ==
    \A i \in Inst :
      Live(i) /\ Captured(objs[i]) =>
        \A f \in FieldSet(objs[i].cls) :
          has_changed(objs[i], f.name)
            = ReturnBool(CurrentValue(i, f) # CapturedValue(i, f))

\* C17: every record in use, however it was produced (constructor,
\* import of an exported state), has a Snapshot, UNSAVED or a mapping, and
\* neither has_changed nor old_value fails for want of one.
C17_SnapshotAlwaysDefined ==
    \A i \in Inst :
      Live(i) =>
        /\ objs[i].p[DataAttr].tag \in {"UNSAVED", "DATA"}
        /\ \A n \in QueryNames(objs[i].cls) :
             /\ has_changed(objs[i], n).exc # "AttributeError"
             /\ old_value(objs[i], n).exc # "AttributeError"

\* C17 witness: a record that an import produced from the exported state
\* of a record built by the constructor, in use with a mapping as Snapshot.
C17_Witness ==
    \E i \in Inst :
      /\ Live(i) /\ last = Op("import", i)
      /\ Captured(objs[i])
      /\ has_changed(objs[i], "id") = False

----------------------------------------------------------------------------
(* The hook, second instances                                              *)

\* Two names, each bound to an Option built by the constructor (as a query
\* builds it from a row): both may represent the same row.
NextTwo ==
    \/ \E i \in Inst :
         \E kw \in [{"id", "value"} -> PyVal] : Construct(i, "Option", kw)
    \/ \E i \in Inst, a \in {"id", "value"}, v \in PyVal : Assign(i, a, v)
    \/ \E i \in Inst, newid \in 1..MaxVal : SaveOk(i, newid)
    \/ \E i \in Inst : SaveFail(i)

SpecTwo == Init /\ [][NextTwo]_vars

\* C18: a successful save of one instance leaves every other instance,
\* the instances of the same row included, as it was: its Snapshot and its
\* has_changed and old_value results.
C18_SnapshotPerInstance ==
    [][\A i \in Inst, j \in Inst :
         i # j /\ last' = Op("save_ok", i) /\ Live(j) =>
           /\ objs'[j].p = objs[j].p
           /\ \A n \in QueryNames(objs[j].cls) :
                /\ has_changed(objs'[j], n) = has_changed(objs[j], n)
                /\ old_value(objs'[j], n) = old_value(objs[j], n)]_vars

\* C18 witness: two instances of the same row; one was just saved with a
\* value the other one did not capture, and the other one still reports
\* its own pending change against its own Snapshot.
C18_Witness ==
    \E i \in Inst, j \in Inst :
      /\ i # j /\ Live(i) /\ Live(j) /\ last = Op("save_ok", i)
      /\ objs[i].cls = objs[j].cls
      /\ objs[i].d["id"] = 1 /\ objs[j].d["id"] = 1
      /\ Captured(objs[i]) /\ Captured(objs[j])
      /\ has_changed(objs[j], "value") = True
      /\ old_value(objs[j], "value") # old_value(objs[i], "value")

\* The Snapshot of o is a copy of o's current columns, or UNSAVED when o's
\* identifier is None or 0.
FreshSnapshot(o) ==
    IF o.d["id"] \in {None, 0} THEN o.p[DataAttr] = UNSAVED
    ELSE /\ o.p[DataAttr].tag = "DATA"
         /\ \A f \in FieldSet(o.cls) :
              dict_get(o.p[DataAttr].map, f.column)
                = getattr3(o, Attname(f), None)

\* C11: a post_save for an object that is no BaseModel runs no capture and
\* changes no record and not the object; a successful save of a record
\* captures that record and no other object.
C11_HookIgnoresOthers ==
    [][/\ last'.op = "save_other" => other' = other /\ objs' = objs
       /\ \A i \in Inst :
            last' = Op("save_ok", i) =>
              /\ FreshSnapshot(objs'[i])
              /\ other' = other
              /\ \A j \in Inst \ {i} : objs'[j] = objs[j]]_vars

\* C11 witness: the foreign object was saved while a record had a modified
\* field that a capture would have absorbed.
C11_Witness ==
    /\ last.op = "save_other"
    /\ other.p[DataAttr].tag = "ABSENT"
    /\ \E i \in Inst :
         /\ Live(i) /\ Captured(objs[i])
         /\ \E f \in FieldSet(objs[i].cls) :
              ~f.fk /\ has_changed(objs[i], f.name) = True


\* post_save delivered once more for the save that just succeeded (a
\* receiver connected twice, a signal sent again): the hook runs again.
DuplicateNotify(i) ==
    /\ Live(i)
    /\ ~InFlight
    /\ last \in {Op("save_ok", i), Op("notify_again", i)}
    /\ objs' = [objs EXCEPT ![i] = model_post_save(objs[i])]
    /\ atCapture' = [atCapture EXCEPT ![i] = Seen(objs'[i])]
    /\ last' = Op("notify_again", i)
    /\ UNCHANGED <<payload, neverSaved>>
    /\ UNCHANGED <<other, deleted, affected, heap>>

NextAgain ==
    \/ Next
    \/ \E i \in Main : DuplicateNotify(i)

SpecAgain == Init /\ [][NextAgain]_vars

\* C19: a capture of a record that was just captured changes nothing: a
\* second delivery of post_save leaves the Snapshot and every has_changed
\* and old_value result as the first one left them, and one more capture
\* would again change nothing.
C19_CaptureIdempotent ==
    [][\A i \in Inst :
         Live(i) /\ last' = Op("notify_again", i) =>
           /\ objs'[i] = objs[i]
           /\ update_tracked_data(objs'[i]) = objs'[i]
           /\ \A n \in QueryNames(objs[i].cls) :
                /\ has_changed(objs'[i], n) = has_changed(objs[i], n)
                /\ old_value(objs'[i], n) = old_value(objs[i], n)]_vars

\* C19 witness: the hook ran a second time on a saved record that holds a
\* copy of its columns.
C19_Witness ==
    \E i \in Inst :
      /\ Live(i) /\ last = Op("notify_again", i)
      /\ Captured(objs[i])
      /\ objs[i].d["id"] = 1
      /\ old_value(objs[i], "id") = Return(1)

====
